---- MODULE Spec2Model ----
(***************************************************************************)
(* Model of tracker/views.py: the three Django views tx_search,            *)
(* last10_from_tx and download_tx_pdf_plain, the explorer fallback         *)
(* fetch_last_txs_from_explorer and the classifier analyze_tx_source.      *)
(*                                                                         *)
(* One request is processed per behaviour.  The remote parties (JSON-RPC   *)
(* nodes, block explorer, Arkham) answer nondeterministically; `world`     *)
(* says what they hold and which answers they may give in this behaviour.  *)
(*                                                                         *)
(* Encoding of Python values:                                              *)
(*   - text the code inspects character by character (addresses, call      *)
(*     data) is a sequence of one-character strings; None and "" are both  *)
(*     the empty sequence, the code reads them only through truthiness;    *)
(*   - a transaction hash is such a text written as its runs of equal      *)
(*     characters, <<[c |-> "0", n |-> 1], ...>>; Chars gives the          *)
(*     characters;                                                         *)
(*   - chain names, error messages and labels are TLA+ strings, None is    *)
(*     the string "None";                                                  *)
(*   - an optional value of another type is <<>> (None) or <<v>>;          *)
(*   - an optional block number is NoBlock (None) or a natural number.     *)
(***************************************************************************)
EXTENDS Integers, Sequences, FiniteSets, TLC

\* ------------------------------------------------------------------ bounds
\* highest block number of the freely populated chains
MaxBlock == 2
\* longest freely composed explorer reply
MaxReply == 2

\* -------------------------------------------------------- program constants
\* `len(collected) < 10`, `>= 10`, `[:10]`, `limit=10`
LIMIT == 10
\* safety_limit = 8000
safety_limit == 8000
\* `len(query) != 66`
HASH_LEN == 66
\* `len(tx_hash) < 10`
MIN_HASH_LEN == 10

\* ------------------------------------------------------------ Python values
NoneStr == "None"
NoBlock == -1
None == <<>>
Some(v) == <<v>>

\* truthiness of a str-or-None held as a TLA+ string
TruthyStr(s) == s # NoneStr /\ s # ""
\* truthiness of text / list held as a sequence
Truthy(s) == s # <<>>
\* truthiness of an optional int: None and 0 are falsy
TruthyInt(n) == n # NoBlock /\ n # 0

\* str.startswith
StartsWith(s, p) == Len(s) >= Len(p) /\ SubSeq(s, 1, Len(p)) = p

\* a run of n characters c, and the characters of a text written in runs
Run(c, n) == [c |-> c, n |-> n]
RECURSIVE Chars(_)
Chars(t) == IF t = <<>> THEN <<>> ELSE [i \in 1..Head(t).n |-> Head(t).c] \o Chars(Tail(t))

\* str.strip() on a text written in runs: the runs of blanks at both ends go
RECURSIVE LStrip(_)
LStrip(t) == IF t # <<>> /\ Head(t).c = " " THEN LStrip(Tail(t)) ELSE t
RECURSIVE RStrip(_)
RStrip(t) == IF t # <<>> /\ t[Len(t)].c = " " THEN RStrip(SubSeq(t, 1, Len(t) - 1)) ELSE t
Strip(t) == RStrip(LStrip(t))

\* str.lower()
LowerChar(c) ==
    CASE c = "A" -> "a" [] c = "B" -> "b" [] c = "C" -> "c"
      [] c = "D" -> "d" [] c = "E" -> "e" [] c = "F" -> "f"
      [] c = "X" -> "x"
      [] OTHER -> c
Lower(s) == [i \in 1..Len(s) |-> LowerChar(s[i])]

\* ------------------------------------------------------------ chain registry
MAINNET == "Ethereum Mainnet"
SEPOLIA == "Sepolia Testnet"
POLYGON == "Polygon Mainnet"
BSC == "Binance Smart Chain"

\* dict key order of RPC_ENDPOINTS
ChainNames == <<MAINNET, SEPOLIA, POLYGON, BSC>>

\* RPC_ENDPOINTS as loaded from variables.env: an ordered dict, one URL or None per chain
RpcConfig(m, s, p, b) ==
    << [name |-> MAINNET, rpc |-> m], [name |-> SEPOLIA, rpc |-> s],
       [name |-> POLYGON, rpc |-> p], [name |-> BSC, rpc |-> b] >>
RpcConfigs ==
    { RpcConfig("https://mainnet", "https://sepolia", "https://polygon", "https://bsc"),
      RpcConfig(NoneStr, "https://sepolia", "", "https://bsc"),
      RpcConfig(NoneStr, NoneStr, "https://polygon", NoneStr) }
AllConfigured == RpcConfig("https://mainnet", "https://sepolia", "https://polygon", "https://bsc")

\* EXPLORER_APIS: chain name -> explorer configuration
ExplorerApis ==
    << [name |-> MAINNET, api_base |-> "https://api.etherscan.io/api", env_key |-> "ETHERSCAN_API_KEY"],
       [name |-> SEPOLIA, api_base |-> "https://api-sepolia.etherscan.io/api", env_key |-> "ETHERSCAN_API_KEY"],
       [name |-> POLYGON, api_base |-> "https://api.polygonscan.com/api", env_key |-> "POLYGONSCAN_API_KEY"],
       [name |-> BSC, api_base |-> "https://api.bscscan.com/api", env_key |-> "BSCSCAN_API_KEY"] >>

\* dict.get(key): the value of the first entry whose key equals `key` exactly, else None
RECURSIVE DictGet(_, _, _)
DictGet(d, key, field) ==
    IF d = <<>> THEN NoneStr
    ELSE IF Head(d).name = key THEN Head(d)[field]
    ELSE DictGet(Tail(d), key, field)

\* list(d.keys())
Keys(d) == [i \in 1..Len(d) |-> d[i].name]

\* ------------------------------------------------------------------- inputs
\* "0x" followed by n characters a
Hash0x(n) == << Run("0", 1), Run("x", 1), Run("a", n) >>
\* a well-formed hash: "0x" + 64 hex characters
H66 == Hash0x(64)
\* "0x" + 10 characters: 12 characters long
H12 == Hash0x(10)
\* "0x" + 6 characters: 8 characters long
H8 == Hash0x(6)
\* 66 characters without the prefix
HNoPrefix == << Run("a", 66) >>
\* "0x" + 65 characters
H67 == Hash0x(65)
\* a well-formed hash between blanks
HPadded == << Run(" ", 1) >> \o H66 \o << Run(" ", 2) >>
\* the parameter q: missing, blank, or one of the hashes above
Queries == { <<>>, << Run(" ", 1) >>, H66, HPadded, H12, H8, HNoPrefix, H67 }

\* the parameter chain: missing, empty, a configured name, the same name in
\* another letter case, an unknown name
Hints == { NoneStr, "", MAINNET, POLYGON, "ethereum mainnet", "POLYGON MAINNET", "Gnosis" }

Views == { "tx_search", "last10_from_tx", "download_tx_pdf_plain" }

\* addresses: W is the wallet of the seed transaction, in checksum case
W == <<"0", "x", "A", "b">>
WLow == <<"0", "x", "a", "b">>
WUp == <<"0", "X", "A", "B">>
Other == <<"0", "x", "C", "d">>
Other2 == <<"0", "x", "E", "f">>
NoAddr == <<>>

\* ------------------------------------------------------------------ call data
\* call data as the node gives it (bytes), as the explorer gives it (a hex
\* string), absent (None), or a value of another type
\* (b holds the bytes of a bytes value, v the characters of a string)
Bytes(b) == [kind |-> "bytes", b |-> b, v |-> <<>>]
Str(v) == [kind |-> "str", b |-> <<>>, v |-> v]
NoData == [kind |-> "none", b |-> <<>>, v |-> <<>>]
OtherData == [kind |-> "other", b |-> <<>>, v |-> <<"5">>]

HexDigits == <<"0", "1", "2", "3", "4", "5", "6", "7", "8", "9", "a", "b", "c", "d", "e", "f">>
\* bytes.hex(): two lower-case digits per byte, no prefix
RECURSIVE hex(_)
hex(b) ==
    IF b = <<>> THEN <<>>
    ELSE <<HexDigits[(Head(b) \div 16) + 1], HexDigits[(Head(b) % 16) + 1]>> \o hex(Tail(b))

\* a9059cbb, 23b872dd and an unrelated selector, as bytes
SelErc20 == <<169, 5, 156, 187>>
SelErc721 == <<35, 184, 114, 221>>
SelOther == <<18, 52, 86, 120>>

\* truthiness of a call-data value
TruthyData(d) == d.kind = "other" \/ d.b # <<>> \/ d.v # <<>>

\* ------------------------------------------------------------------- Arkham
\* arkham_label_for(address); `reply` is what the service would answer
\* (a label, or None when the request fails or names no entity)
arkham_label_for(key, address, reply) ==
    IF ~Truthy(address) \/ ~TruthyStr(key) THEN NoneStr ELSE reply

SourceLabel(lbl) == IF lbl = "binance" THEN "Source: binance" ELSE "Source: kraken"
DestLabel(lbl) == IF lbl = "binance" THEN "Dest: binance" ELSE "Dest: kraken"

\* --------------------------------------------------------------- classifier
\* lines 135-139: tx_obj.get("input") or tx_obj.get("data") or ""
InputData(tx_obj) ==
    IF TruthyData(tx_obj.input) THEN tx_obj.input
    ELSE IF TruthyData(tx_obj.data) THEN tx_obj.data
    ELSE Str(<<>>)

\* mutant of InputHeuristics: the missing recipient is tested before the selectors
InputHeuristicsCreationFirst(input_data0, _to) ==
    LET input_data == IF input_data0.kind = "bytes" THEN Str(hex(input_data0.b)) ELSE input_data0
    IN  IF ~TruthyData(input_data) THEN "Transfer"
        ELSE IF input_data.kind = "other" THEN "Unknown"
        ELSE IF input_data.v = <<"0", "x">> THEN "Transfer"
        ELSE IF ~Truthy(_to) THEN "Contract creation"
        ELSE IF StartsWith(input_data.v, <<"0", "x">> \o hex(SelErc20))
                \/ StartsWith(input_data.v, hex(SelErc20)) THEN "ERC-20 Transfer"
        ELSE IF StartsWith(input_data.v, <<"0", "x">> \o hex(SelErc721))
                \/ StartsWith(input_data.v, hex(SelErc721)) THEN "ERC-721 Transfer"
        ELSE "Contract Interaction"

\* lines 141-159: the heuristics on the call data
InputHeuristics(input_data0, _to) ==
    LET input_data == IF input_data0.kind = "bytes" THEN Str(hex(input_data0.b)) ELSE input_data0
    IN  IF ~TruthyData(input_data) THEN "Transfer"
        ELSE IF input_data.kind = "other" THEN "Unknown"
        ELSE IF input_data.v = <<"0", "x">> THEN "Transfer"
        ELSE IF StartsWith(input_data.v, <<"0", "x">> \o hex(SelErc20))
                \/ StartsWith(input_data.v, hex(SelErc20)) THEN "ERC-20 Transfer"
        ELSE IF StartsWith(input_data.v, <<"0", "x">> \o hex(SelErc721))
                \/ StartsWith(input_data.v, hex(SelErc721)) THEN "ERC-721 Transfer"
        ELSE IF ~Truthy(_to) THEN "Contract creation"
        ELSE "Contract Interaction"

\* analyze_tx_source(tx_obj, w3); replyFrom and replyTo are Arkham's answers
\* for the two addresses
analyze_tx_source(key, tx_obj, replyFrom, replyTo) ==
    LET _from == tx_obj.from
        _to == tx_obj.to
        lblFrom == arkham_label_for(key, _from, replyFrom)
        lblTo == arkham_label_for(key, _to, replyTo)
    IN  IF TruthyStr(key) /\ Truthy(_from) /\ TruthyStr(lblFrom) THEN SourceLabel(lblFrom)
        ELSE IF TruthyStr(key) /\ Truthy(_to) /\ TruthyStr(lblTo) THEN DestLabel(lblTo)
        ELSE InputHeuristics(InputData(tx_obj), _to)

\* ------------------------------------------------------- what the nodes hold
\* the hash of the i-th transaction of block n: "0x", n + 1 times b, i times c
TxHash(n, i) == << Run("0", 1), Run("x", 1), Run("b", n + 1), Run("c", i) >>

Tx(h, f, t, v, g, inp) ==
    [hash |-> h, from |-> f, to |-> t, value |-> v, gas |-> g, input |-> inp, data |-> NoData]

\* the transactions the freely populated blocks are composed of
\* sent by the wallet
T1(n, i) == Tx(TxHash(n, i), W, Other, 5, 21000, Bytes(<<>>))
\* received by the wallet, which the node spells in lower case
T2(n, i) == Tx(TxHash(n, i), Other, WLow, 7, 60000, Bytes(SelErc20 \o <<0, 1>>))
\* without sender, addressed to the wallet
T3(n, i) == Tx(TxHash(n, i), NoAddr, W, 1, 21000, Bytes(<<>>))
\* between two other addresses
T4(n, i) == Tx(TxHash(n, i), Other, Other2, 2, 21000, Bytes(SelErc721))
\* a contract creation by the wallet, which the node spells in upper case
T5(n, i) == Tx(TxHash(n, i), WUp, NoAddr, 0, 90000, Bytes(SelOther))

\* the contents a freely populated block n may have
FreeBlocks(n) ==
    { <<>>, <<T1(n, 1)>>, <<T2(n, 1)>>, <<T3(n, 1)>>, <<T4(n, 1)>>,
      <<T1(n, 1), T2(n, 2)>>, <<T4(n, 1), T5(n, 2)>> }

\* a reply to get_block(n, full_transactions=True): a block, or an exception
Block(n, txs) == [ok |-> TRUE, timestamp |-> 1700000000 + n, transactions |-> txs]
BlockFails == [ok |-> FALSE, timestamp |-> 0, transactions |-> <<>>]

\* the seed transaction as get_transaction returns it
SeedTx(f, bn) ==
    [hash |-> H66, from |-> f, to |-> Other, value |-> 3, gas |-> 21000,
     input |-> Bytes(<<>>), data |-> NoData, blockNumber |-> bn]
\* the seed transaction as an entry of its block
SeedInBlock(seed) == Tx(seed.hash, seed.from, seed.to, seed.value, seed.gas, seed.input)

\* --------------------------------------------------------------- the world
\* world.nodes: "faulty" (a node may refuse the connection, fail, or lack the
\*   transaction) or "healthy"
\* world.chain: how the blocks of the chains are populated
\*   "consistent"  the seed's block holds the seed, every other block is empty
\*   "free"        every block fetch fails or returns one of FreeBlocks
\*   "empty"       every block is empty
\*   "void"        the fetch of the seed's block fails; every other block fetch
\*                 fails or returns an empty block
\*   "flaky"       the fetch of every even block fails; the odd blocks hold
\*                 the seed (the seed's block) or two transactions of the wallet
\*   "ten"         the seed's block holds the seed; each of the ten blocks below
\*                 holds exactly one transaction touching the wallet
\*   "ten_bare"    as "ten", but the seed's block is returned without the seed
\*   "big"         the seed's block holds LIMIT + 2 transactions of the wallet
\*   "split"       the seed's block and the block below hold LIMIT - 4 each
\*   "seeded"      the seed's block fails, lacks the seed, or holds it, alone,
\*                 among others or behind LIMIT transactions of the wallet
\* world.explorer: "plain" (the replies of PlainReplies) or "free"
\* world.seed: the seed transaction as the nodes store it
Worlds ==
    \* chain selection against failing nodes
       { [nodes |-> "faulty", chain |-> "consistent", explorer |-> "plain", seed |-> SeedTx(W, 1)] }
    \* the scan over freely populated blocks
    \cup { [nodes |-> "healthy", chain |-> "free", explorer |-> "plain", seed |-> SeedTx(f, bn)] :
             f \in {W, NoAddr}, bn \in {NoBlock} \cup (1..MaxBlock) }
    \* the explorer fallback after a scan without matches
    \cup { [nodes |-> "healthy", chain |-> "empty", explorer |-> "free", seed |-> SeedTx(W, 1)],
           [nodes |-> "faulty", chain |-> "empty", explorer |-> "plain", seed |-> SeedTx(W, 1)] }
    \* scans across failing block fetches
    \cup { [nodes |-> "healthy", chain |-> "flaky", explorer |-> "plain", seed |-> SeedTx(W, bn)] :
             bn \in {MaxBlock + 1, MaxBlock + 2} }
    \* the seed's block with and without the seed
    \cup { [nodes |-> "healthy", chain |-> "seeded", explorer |-> "plain", seed |-> SeedTx(W, bn)] :
             bn \in {NoBlock, 1} }
    \* scans that reach the limit
    \cup { [nodes |-> "healthy", chain |-> c, explorer |-> "plain", seed |-> SeedTx(W, bn)] :
             c \in {"big", "split"}, bn \in {1, MaxBlock + 1} }
    \cup { [nodes |-> "healthy", chain |-> c, explorer |-> "plain", seed |-> SeedTx(W, 1000)] :
             c \in {"ten", "ten_bare"} }

\* the outcomes of one pass of a view's chain loop over a chain with an RPC URL
\*   "refused"      is_connected() returns False
\*   "conn_raises"  is_connected() raises
\*   "no_tx"        get_transaction raises TransactionNotFound (or a transport error)
\*   "no_receipt"   get_transaction_receipt raises
\*   "no_block"     get_block raises
\*   "ok"           every call succeeds
\* a node returns a transaction only under its own hash
NodeOutcomes(wd, h) ==
    (IF wd.nodes = "faulty" THEN {"refused", "conn_raises", "no_tx"} ELSE {})
    \cup (IF h # wd.seed.hash THEN {"no_tx"}
          ELSE IF wd.nodes = "faulty" THEN {"no_receipt", "no_block", "ok"}
          ELSE {"ok"})

\* the replies to w3.eth.block_number: an exception (NoBlock) or the head
HeadReplies == {NoBlock} \cup (0..MaxBlock)

\* n matching transactions of block b, sent and received by the wallet in turn
Burst(b, n) == [i \in 1..n |-> IF i % 2 = 1 THEN T1(b, i) ELSE T2(b, i)]

\* the replies to get_block(n, full_transactions=True)
BlockReplies(wd, n) ==
    CASE wd.chain = "consistent" ->
            { Block(n, IF n = wd.seed.blockNumber THEN <<SeedInBlock(wd.seed)>> ELSE <<>>) }
      [] wd.chain = "free" -> {BlockFails} \cup { Block(n, txs) : txs \in FreeBlocks(n) }
      [] wd.chain = "empty" -> { Block(n, <<>>) }
      [] wd.chain = "void" ->
            IF n = wd.seed.blockNumber THEN { BlockFails } ELSE { BlockFails, Block(n, <<>>) }
      [] wd.chain = "flaky" ->
            IF n % 2 = 0 THEN { BlockFails }
            ELSE IF n = wd.seed.blockNumber THEN { Block(n, <<SeedInBlock(wd.seed)>>) }
            ELSE { Block(n, <<T2(n, 1), T4(n, 2), T1(n, 3)>>) }
      [] wd.chain = "seeded" ->
            IF n = wd.seed.blockNumber
              THEN { BlockFails, Block(n, <<>>), Block(n, <<T4(n, 1)>>),
                     Block(n, <<SeedInBlock(wd.seed)>>),
                     Block(n, <<T4(n, 1), SeedInBlock(wd.seed), T2(n, 3)>>),
                     Block(n, Burst(n, LIMIT) \o <<SeedInBlock(wd.seed)>>) }
              ELSE { BlockFails, Block(n, <<>>), Block(n, <<T1(n, 1)>>) }
      [] wd.chain \in {"ten", "ten_bare"} ->
            IF n = wd.seed.blockNumber
              THEN IF wd.chain = "ten" THEN { Block(n, <<T4(n, 1), SeedInBlock(wd.seed)>>) }
                   ELSE { Block(n, <<T4(n, 1)>>), Block(n, <<>>) }
            ELSE IF n >= wd.seed.blockNumber - 10
              THEN { Block(n, IF n % 2 = 0 THEN <<T4(n, 1), T2(n, 2)>> ELSE <<T1(n, 1)>>) }
            ELSE { Block(n, <<>>) }
      [] wd.chain = "big" ->
            { Block(n, IF n = wd.seed.blockNumber THEN Burst(n, LIMIT + 2) ELSE <<T1(n, 1)>>) }
      [] wd.chain = "split" ->
            { Block(n, IF n >= wd.seed.blockNumber - 1 THEN Burst(n, LIMIT - 4) ELSE <<>>) }

\* ---------------------------------------------------------------- messages
ERR_INVALID == "Invalid transaction hash format"
ERR_NOT_FOUND == "Transaction not found on supported chains or node doesn't have it."
ERR_NO_SOURCE == "Source address not found in base transaction."
ERR_EXPLORER == "Explorer API error or missing API key. Check explorer keys in variables.env."
ERR_NO_ACTIVITY == "Explorer returned no transactions for wallet"
ERR_NO_RECENT == "No recent transactions found for wallet"
ERR_SEARCH_NOT_FOUND == "Transaction not found on selected chain(s)."

\* ----------------------------------------------------------------- explorer
\* a field of an explorer entry: a numeric string, a non-numeric string, or
\* missing (or empty)
Num(n) == [kind |-> "num", n |-> n]
BadNum == [kind |-> "bad", n |-> 0]
Missing == [kind |-> "missing", n |-> 0]

Entry(h, f, t, v, g, bn, ts, inp) ==
    [hash |-> h, from |-> f, to |-> t, value |-> v, gas |-> g, blockNumber |-> bn,
     timeStamp |-> ts, input |-> inp]

\* the entries the freely composed replies are made of
Entries ==
    { \* sent by the wallet, block 7
      Entry(TxHash(7, 1), WLow, Other, Num(5), Num(21000), Num(7), Num(1700000007), Str(<<"0", "x">>)),
      \* received by the wallet, block 9
      Entry(TxHash(9, 1), Other, WLow, Num(7), Num(60000), Num(9), Num(1700000009), Str(<<"0", "x">> \o hex(SelErc20))),
      \* a second transaction of block 7
      Entry(TxHash(7, 2), WLow, NoAddr, Num(0), Num(90000), Num(7), Num(1700000007), Str(<<"0", "x">> \o hex(SelOther))),
      \* a transaction that does not touch the wallet
      Entry(TxHash(8, 1), Other, Other2, Num(2), Num(21000), Num(8), Num(1700000008), Str(<<"0", "x">>)),
      \* non-numeric gas
      Entry(TxHash(6, 1), WLow, Other, Num(1), BadNum, Num(6), Num(1700000006), Str(<<"0", "x">>)),
      \* missing sender, value, block number and time stamp
      Entry(TxHash(5, 1), NoAddr, WLow, BadNum, Num(21000), Missing, Missing, Str(<<>>)) }

RECURSIVE SeqsUpTo(_, _)
SeqsUpTo(S, n) ==
    IF n = 0 THEN { <<>> }
    ELSE LET shorter == SeqsUpTo(S, n - 1)
         IN  shorter \cup { Append(q, e) : q \in shorter, e \in S }

\* a reply of the explorer's HTTP API
\*   kind: "transport_error" (requests.get raises), "http_error"
\*         (raise_for_status raises), "bad_json" (r.json() raises),
\*         "not_dict" (the JSON document is no object), "json"
\*   status, is_list, result: the fields of the JSON object
Http(kind, status, is_list, result) ==
    [kind |-> kind, status |-> status, is_list |-> is_list, result |-> result]

\* LIMIT + 2 entries of the wallet, oldest first
LongResult ==
    [i \in 1..(LIMIT + 2) |->
        Entry(TxHash(20 + i, 1), WLow, Other, Num(i), Num(21000), Num(20 + i),
              Num(1700000020 + i), Str(<<"0", "x">>))]

PlainReplies ==
    { Http("transport_error", NoneStr, FALSE, <<>>),
      Http("http_error", NoneStr, FALSE, <<>>),
      Http("bad_json", NoneStr, FALSE, <<>>),
      Http("not_dict", NoneStr, FALSE, <<>>),
      \* {"status": "0", "message": "NOTOK", "result": "Invalid API Key"}
      Http("json", "0", FALSE, <<>>),
      \* {"status": "0", "message": "No transactions found", "result": []}
      Http("json", "0", TRUE, <<>>),
      \* {"status": "1", "result": "..."}
      Http("json", "1", FALSE, <<>>),
      Http("json", "1", TRUE, <<>>),
      Http("json", "1", TRUE, LongResult) }

ExplorerReplies(wd) ==
    PlainReplies \cup
    (IF wd.explorer = "free"
       THEN { Http("json", "1", TRUE, r) : r \in SeqsUpTo(Entries, MaxReply) }
       ELSE { Http("json", "1", TRUE, r) : r \in SeqsUpTo(Entries, 1) })

\* the values os.getenv(cfg["env_key"]) may have
ApiKeys == { NoneStr, "", "KEY" }

\* lines 173-179: does fetch_last_txs_from_explorer send a request
ExplorerRequestSent(apis, chain_name, api_key) ==
    TruthyStr(DictGet(apis, chain_name, "api_base")) /\ TruthyStr(api_key)

\* mutant of fetch_last_txs_from_explorer: a status other than "1" is an error
fetch_status_is_error(apis, chain_name, api_key, http) ==
    IF ~TruthyStr(DictGet(apis, chain_name, "api_base")) THEN None
    ELSE IF ~TruthyStr(api_key) THEN None
    ELSE IF http.kind # "json" THEN None
    ELSE IF http.status = "1" /\ http.is_list THEN Some(http.result)
    ELSE IF http.status = "1" THEN Some(<<>>)
    ELSE None

\* fetch_last_txs_from_explorer(chain_name, address, limit): None, or Some(list)
fetch_last_txs_from_explorer(apis, chain_name, api_key, http) ==
    IF ~TruthyStr(DictGet(apis, chain_name, "api_base")) THEN None
    ELSE IF ~TruthyStr(api_key) THEN None
    ELSE IF http.kind # "json" THEN None
    ELSE IF http.status = "1" /\ http.is_list THEN Some(http.result)
    ELSE Some(<<>>)

\* int(x or 0) raises ValueError
IntRaises(f) == f.kind = "bad"
\* int(x or 0)
IntOr0(f) == IF f.kind = "num" THEN f.n ELSE 0

\* lines 420-441 raise for this entry (value is converted under try/except)
EntryRaises(et) == IntRaises(et.gas) \/ IntRaises(et.blockNumber) \/ IntRaises(et.timeStamp)

\* lines 420-441: the tx_info of an explorer entry
ExplorerTxInfo(et, chain_name) ==
    [hash |-> et.hash, from |-> et.from, to |-> et.to,
     value_wei |-> IntOr0(et.value), value_eth |-> IntOr0(et.value),
     gas |-> IntOr0(et.gas), block |-> IntOr0(et.blockNumber),
     timestamp |-> IF et.timeStamp.kind = "num" /\ et.timeStamp.n # 0 THEN Some(et.timeStamp.n) ELSE None,
     input |-> et.input, source |-> "Explorer (raw)",
     explorer_url |-> Some([chain |-> chain_name, hash |-> et.hash]),
     to_explorer_url |-> IF Truthy(et.to) THEN Some([chain |-> chain_name, addr |-> et.to]) ELSE None]

\* --------------------------------------------------------------- node scan
\* mutant of Matches: only the recipient is compared
MatchesRecipientOnly(t_from, t_to, addr) ==
    Truthy(t_to) /\ Lower(t_to) = Lower(addr)

\* line 370: the transaction touches the wallet
Matches(t_from, t_to, addr) ==
    \/ Truthy(t_from) /\ Lower(t_from) = Lower(addr)
    \/ Truthy(t_to) /\ Lower(t_to) = Lower(addr)

\* lines 372-398: the tx_info of a transaction of a scanned block
NodeTxInfo(t, n, block_ts) ==
    [hash |-> t.hash, from |-> t.from, to |-> t.to,
     value_wei |-> t.value, value_eth |-> t.value,
     gas |-> t.gas, block |-> n,
     timestamp |-> IF block_ts # 0 THEN Some(block_ts) ELSE None,
     input |-> t.input, source |-> analyze_tx_source(NoneStr, t, NoneStr, NoneStr),
     explorer_url |-> None, to_explorer_url |-> None]

\* mutant of ScanTxs: a transaction without sender is compared like any other
RECURSIVE ScanTxsNoSkip(_, _, _, _, _)
ScanTxsNoSkip(acc, txs, n, block_ts, addr) ==
    IF txs = <<>> THEN acc
    ELSE LET t == Head(txs)
         IN  IF Matches(t.from, t.to, addr)
               THEN LET acc2 == Append(acc, NodeTxInfo(t, n, block_ts))
                    IN  IF Len(acc2) >= LIMIT THEN acc2
                        ELSE ScanTxsNoSkip(acc2, Tail(txs), n, block_ts, addr)
             ELSE ScanTxsNoSkip(acc, Tail(txs), n, block_ts, addr)

\* lines 364-402: the loop over the transactions of one block
RECURSIVE ScanTxs(_, _, _, _, _)
ScanTxs(acc, txs, n, block_ts, addr) ==
    IF txs = <<>> THEN acc
    ELSE LET t == Head(txs)
         IN  IF ~Truthy(t.from) THEN ScanTxs(acc, Tail(txs), n, block_ts, addr)
             ELSE IF Matches(t.from, t.to, addr)
               THEN LET acc2 == Append(acc, NodeTxInfo(t, n, block_ts))
                    IN  IF Len(acc2) >= LIMIT THEN acc2
                        ELSE ScanTxs(acc2, Tail(txs), n, block_ts, addr)
             ELSE ScanTxs(acc, Tail(txs), n, block_ts, addr)

\* mutant of ScanContinues: the test of the block number is lost
ScanContinuesBelowZero(n, acc, done) == Len(acc) < LIMIT /\ done < safety_limit

\* mutant of ScanBlock: a failed fetch loses what was collected
ScanBlockResets(acc, reply, n, addr) ==
    IF reply.ok THEN ScanTxs(acc, reply.transactions, n, reply.timestamp, addr) ELSE <<>>

\* lines 355-402: what one pass of the scan loop collects from the reply to
\* get_block: on an exception (lines 357-361) nothing
ScanBlock(acc, reply, n, addr) ==
    IF reply.ok THEN ScanTxs(acc, reply.transactions, n, reply.timestamp, addr) ELSE acc

\* line 354: the condition of the scan loop
ScanContinues(n, acc, done) == n >= 0 /\ Len(acc) < LIMIT /\ done < safety_limit

\* mutant of StartBlock: the scan starts below the seed's block
StartBlockBelow(bn, head) == IF TruthyInt(bn) THEN bn - 1 ELSE head

\* mutant of StartBlock: the scan starts above the seed's block
StartBlockAbove(bn, head) == IF TruthyInt(bn) THEN bn + 1 ELSE head

\* line 344: blockNumber or the head
StartBlock(bn, head) == IF TruthyInt(bn) THEN bn ELSE head

\* ----------------------------------------------------------------- assembly
\* line 448: the sort key, x.get("block") or 0
SortKey(x) == x.block

\* mutant of InsertDesc: insertion in front of the entries with an equal key
RECURSIVE InsertDescUnstable(_, _)
InsertDescUnstable(sorted, x) ==
    IF sorted = <<>> THEN <<x>>
    ELSE IF Head(sorted).block > x.block THEN <<Head(sorted)>> \o InsertDescUnstable(Tail(sorted), x)
    ELSE <<x>> \o sorted

\* insertion behind every entry whose key is not smaller: a stable descending order
RECURSIVE InsertDesc(_, _)
InsertDesc(sorted, x) ==
    IF sorted = <<>> THEN <<x>>
    ELSE IF SortKey(Head(sorted)) >= SortKey(x) THEN <<Head(sorted)>> \o InsertDesc(Tail(sorted), x)
    ELSE <<x>> \o sorted

\* sorted(collected, key=..., reverse=True)
RECURSIVE SortedDesc(_)
SortedDesc(q) ==
    IF q = <<>> THEN <<>>
    ELSE InsertDesc(SortedDesc(SubSeq(q, 1, Len(q) - 1)), q[Len(q)])

\* mutant of Truncate: the sorted list is not cut
TruncateNone(q) == q

\* [:10]
Truncate(q) == SubSeq(q, 1, IF Len(q) < LIMIT THEN Len(q) ELSE LIMIT)

\* line 448
CollectedSorted(q) == Truncate(SortedDesc(q))

RECURSIVE SumValues(_)
SumValues(q) == IF q = <<>> THEN 0 ELSE Head(q).value_eth + SumValues(Tail(q))

\* lines 451-464: the chart series
ChartPayload(q) ==
    [labels |-> [i \in 1..Len(q) |-> [block |-> q[i].block, time |-> q[i].timestamp]],
     values |-> [i \in 1..Len(q) |-> q[i].value_eth],
     gas |-> [i \in 1..Len(q) |-> q[i].gas],
     hashes |-> [i \in 1..Len(q) |-> q[i].hash]]

\* lines 466-472: context.update
Assembled(ctx, q) ==
    [ctx EXCEPT !.txs = Some(q), !.chart_json = Some(ChartPayload(q)),
                !.total_value_eth = SumValues(q), !.tx_count = Len(q), !.err = NoneStr]

\* ------------------------------------------------------------------- state
VARIABLES
    RPC_ENDPOINTS,      \* module global, loaded once
    EXPLORER_APIS,      \* module global
    ARKHAM_KEY,         \* module global
    world,              \* what the remote parties hold
    request,            \* [view, q, chain]: the GET request being served
    pc,                 \* position of the view: "start", "select", "scan", "done"
    tx_hash, selected_chain, chains_to_search,
    idx,                \* position of the chain loop in chains_to_search
    base_tx, w3, found_chain, from_addr,
    start_block, block_num, scanned, collected,
    context,            \* the template context
    response,           \* what the view returns: [status, body]
    seed_fetch,         \* history: what get_block answered for the seed's block:
                        \* "unfetched", "failed", "absent" (no seed in it), "present"
    outcomes,           \* history: how each pass of the chain loop ended, [chain, o]
    calls,              \* the network calls made so far, in order
    explorer_io,        \* history: the address asked for, the API key read and the explorer's
                        \* reply, once the fallback ran
    explorer_txs,       \* what fetch_last_txs_from_explorer returned
    tx_obj,             \* the argument of analyze_tx_source
    arkham,             \* Arkham's answers for tx_obj's two addresses
    source              \* the result of analyze_tx_source

vars == << RPC_ENDPOINTS, EXPLORER_APIS, ARKHAM_KEY, world, request, pc, tx_hash,
           selected_chain, chains_to_search, idx, base_tx, w3, found_chain, from_addr,
           start_block, block_num, scanned, collected, context, response, calls,
           outcomes, seed_fetch, explorer_io, explorer_txs, tx_obj, arkham, source >>

classifier == << tx_obj, arkham, source >>
globals == << RPC_ENDPOINTS, EXPLORER_APIS, ARKHAM_KEY, world, request >>
selection == << chains_to_search, idx, base_tx, w3, found_chain >>
scan == << from_addr, start_block, block_num, scanned, collected >>
\* what only the fallback and the classifier write
rest == << explorer_io, explorer_txs, classifier, seed_fetch >>

Call(op, chain, arg) == [op |-> op, chain |-> chain, arg |-> arg]
Pass(chain, o) == [chain |-> chain, o |-> o]

NoResponse == [status |-> 0, body |-> NoneStr]
Render(template) == [status |-> 200, body |-> template]
\* an exception that leaves the view: Django answers 500
Fault == [status |-> 500, body |-> "unhandled exception"]

\* the requests served against each world: every view, query and chain hint
\* against the failing nodes, a well-formed last10 request otherwise
Requests(wd) ==
    IF wd.nodes = "faulty"
      THEN [view : Views, q : Queries, chain : Hints]
      ELSE [view : {"last10_from_tx"}, q : {H66}, chain : {NoneStr, MAINNET}]

Init ==
    /\ world \in Worlds
    /\ RPC_ENDPOINTS \in (IF world.nodes = "faulty" THEN RpcConfigs ELSE {AllConfigured})
    /\ EXPLORER_APIS = ExplorerApis
    /\ ARKHAM_KEY = NoneStr
    /\ request \in Requests(world)
    /\ pc = "start"
    /\ tx_hash = <<>>
    /\ selected_chain = NoneStr
    /\ chains_to_search = <<>>
    /\ idx = 1
    /\ base_tx = None
    /\ w3 = NoneStr
    /\ found_chain = NoneStr
    /\ from_addr = NoAddr
    /\ start_block = NoBlock
    /\ block_num = NoBlock
    /\ scanned = 0
    /\ collected = <<>>
    /\ context = [err |-> NoneStr]
    /\ response = NoResponse
    /\ calls = <<>>
    /\ outcomes = <<>>
    /\ seed_fetch = "unfetched"
    /\ explorer_io = None
    /\ explorer_txs = None
    /\ tx_obj = SeedTx(W, 1)
    /\ arkham = [from |-> NoneStr, to |-> NoneStr]
    /\ source = NoneStr

\* ------------------------------------------------------------ shared pieces
\* mutant of ValidHash: the length is only bounded from below
ValidHashPrefixOnly(h) == StartsWith(Chars(h), <<"0", "x">>) /\ Len(Chars(h)) >= MIN_HASH_LEN

\* lines 226, 485: the hash check of tx_search and download_tx_pdf_plain
ValidHash(h) == StartsWith(Chars(h), <<"0", "x">>) /\ Len(Chars(h)) = HASH_LEN

\* line 304: the hash check of last10_from_tx
ValidHashLast10(h) == StartsWith(Chars(h), <<"0", "x">>) /\ Len(Chars(h)) >= MIN_HASH_LEN

\* mutant of ChainsToSearch: the hinted chain is tried first, then every chain
ChainsToSearchHintFirst(sel, endpoints) ==
    IF TruthyStr(sel) THEN <<sel>> \o Keys(endpoints) ELSE Keys(endpoints)

\* lines 230, 309, 488: [selected_chain] if selected_chain else list(RPC_ENDPOINTS.keys())
ChainsToSearch(sel, endpoints) == IF TruthyStr(sel) THEN <<sel>> ELSE Keys(endpoints)

\* str.lower() on the chain names the model uses
NameLower(s) ==
    CASE s \in {MAINNET, "ethereum mainnet"} -> "ethereum mainnet"
      [] s \in {POLYGON, "POLYGON MAINNET"} -> "polygon mainnet"
      [] s = SEPOLIA -> "sepolia testnet"
      [] s = BSC -> "binance smart chain"
      [] s = "Gnosis" -> "gnosis"
      [] OTHER -> s

\* lines 314, 234, 492: RPC_ENDPOINTS.get(chain_name)
RpcOf(endpoints, chain_name) == DictGet(endpoints, chain_name, "rpc")

\* --------------------------------------------------------- last10_from_tx
\* lines 287-297
Last10Context(q, sel, endpoints) ==
    [query |-> q, chains |-> Keys(endpoints), chain |-> sel, txs |-> None,
     chart_json |-> None, wallet |-> NoAddr, total_value_eth |-> 0, tx_count |-> 0,
     err |-> NoneStr]

\* lines 285-309: read the parameters, check the hash
Last10Begin ==
    /\ pc = "start"
    /\ request.view = "last10_from_tx"
    /\ LET h == Strip(request.q)
           ctx == Last10Context(h, request.chain, RPC_ENDPOINTS)
       IN  /\ tx_hash' = h
           /\ selected_chain' = request.chain
           /\ IF ~Truthy(h)
                THEN /\ context' = ctx
                     /\ response' = Render("last10_from_tx.html")
                     /\ pc' = "done"
                     /\ UNCHANGED chains_to_search
              ELSE IF ~ValidHashLast10(h)
                THEN /\ context' = [ctx EXCEPT !.err = ERR_INVALID]
                     /\ response' = Render("last10_from_tx.html")
                     /\ pc' = "done"
                     /\ UNCHANGED chains_to_search
              ELSE /\ context' = ctx
                   /\ chains_to_search' = ChainsToSearch(request.chain, RPC_ENDPOINTS)
                   /\ pc' = "select"
                   /\ UNCHANGED response
    /\ UNCHANGED << globals, rest, idx, base_tx, w3, found_chain, scan, calls, outcomes >>

\* lines 313-328: one pass of the chain loop
Last10TryChain ==
    /\ pc = "select"
    /\ request.view = "last10_from_tx"
    /\ w3 = NoneStr
    /\ idx <= Len(chains_to_search)
    /\ LET chain_name == chains_to_search[idx]
           rpc == RpcOf(RPC_ENDPOINTS, chain_name)
       IN  \E o \in (IF TruthyStr(rpc) THEN NodeOutcomes(world, tx_hash) ELSE {"no_rpc"}) :
             /\ calls' = CASE o = "no_rpc" -> calls
                           [] o \in {"refused", "conn_raises"} ->
                                Append(calls, Call("is_connected", chain_name, 0))
                           [] OTHER ->
                                calls \o << Call("is_connected", chain_name, 0),
                                            Call("get_transaction", chain_name, 0) >>
             /\ outcomes' = Append(outcomes, Pass(chain_name,
                                  IF o \in {"ok", "no_receipt", "no_block"} THEN "ok" ELSE o))
             /\ IF o \in {"ok", "no_receipt", "no_block"}
                  THEN /\ base_tx' = Some(world.seed)
                       /\ w3' = chain_name
                       /\ found_chain' = chain_name
                       /\ UNCHANGED idx
                  ELSE /\ idx' = idx + 1
                       /\ UNCHANGED << base_tx, w3, found_chain >>
    /\ UNCHANGED << globals, rest, pc, tx_hash, selected_chain, chains_to_search, scan,
                    context, response >>

\* lines 330-352: after the chain loop: the wallet and the starting block
Last10Start ==
    /\ pc = "select"
    /\ request.view = "last10_from_tx"
    /\ w3 # NoneStr \/ idx > Len(chains_to_search)
    /\ IF base_tx = None \/ w3 = NoneStr
         THEN /\ context' = [context EXCEPT !.err = ERR_NOT_FOUND]
              /\ response' = Render("last10_from_tx.html")
              /\ pc' = "done"
              /\ UNCHANGED << scan, calls >>
       ELSE IF ~Truthy(base_tx[1].from)
         THEN /\ context' = [context EXCEPT !.err = ERR_NO_SOURCE]
              /\ response' = Render("last10_from_tx.html")
              /\ pc' = "done"
              /\ UNCHANGED << scan, calls >>
       ELSE /\ from_addr' = base_tx[1].from
            /\ context' = [context EXCEPT !.wallet = base_tx[1].from, !.chain = found_chain]
            /\ scanned' = 0
            /\ collected' = <<>>
            /\ IF TruthyInt(base_tx[1].blockNumber)
                 THEN /\ start_block' = StartBlock(base_tx[1].blockNumber, NoBlock)
                      /\ block_num' = start_block'
                      /\ pc' = "scan"
                      /\ UNCHANGED << response, calls >>
               ELSE \E head1 \in HeadReplies, head2 \in HeadReplies :
                      IF head1 # NoBlock
                        \* line 344 succeeds
                        THEN /\ head2 = 0
                             /\ calls' = Append(calls, Call("block_number", w3, 0))
                             /\ start_block' = StartBlock(base_tx[1].blockNumber, head1)
                             /\ block_num' = start_block'
                             /\ pc' = "scan"
                             /\ UNCHANGED response
                      ELSE IF head2 # NoBlock
                        \* line 344 raises, line 346 succeeds
                        THEN /\ calls' = calls \o << Call("block_number", w3, 0),
                                                     Call("block_number", w3, 0) >>
                             /\ start_block' = head2
                             /\ block_num' = head2
                             /\ pc' = "scan"
                             /\ UNCHANGED response
                      \* line 346 raises as well
                      ELSE /\ calls' = calls \o << Call("block_number", w3, 0),
                                                   Call("block_number", w3, 0) >>
                           /\ response' = Fault
                           /\ pc' = "done"
                           /\ UNCHANGED << start_block, block_num >>
    /\ UNCHANGED << globals, rest, tx_hash, selected_chain, selection, outcomes >>

\* what a reply to get_block says about the seed transaction tx
SeedFetched(reply, tx) ==
    IF ~reply.ok THEN "failed"
    ELSE IF \E i \in 1..Len(reply.transactions) : reply.transactions[i].hash = tx.hash
      THEN "present"
    ELSE "absent"

\* lines 354-405: one pass of the scan loop
Last10Scan ==
    /\ pc = "scan"
    /\ ScanContinues(block_num, collected, scanned)
    /\ \E reply \in BlockReplies(world, block_num) :
         /\ calls' = Append(calls, Call("get_block", w3, block_num))
         /\ collected' = ScanBlock(collected, reply, block_num, from_addr)
         /\ seed_fetch' = IF block_num = base_tx[1].blockNumber
                             THEN SeedFetched(reply, base_tx[1]) ELSE seed_fetch
    /\ block_num' = block_num - 1
    /\ scanned' = scanned + 1
    /\ UNCHANGED << globals, explorer_io, explorer_txs, classifier, pc, tx_hash, selected_chain, selection, from_addr,
                    start_block, context, response, outcomes >>

\* mutant of FallbackNeeded: the explorer is asked whenever the scan fell short
FallbackWhenShort(acc) == Len(acc) < LIMIT

\* line 408: if not collected
FallbackNeeded(acc) == acc = <<>>

\* lines 407-473 when the scan collected nothing: the explorer fallback
Last10Fallback ==
    /\ pc = "scan"
    /\ ~ScanContinues(block_num, collected, scanned)
    /\ FallbackNeeded(collected)
    /\ \E api_key \in ApiKeys, http \in ExplorerReplies(world) :
         LET sent == ExplorerRequestSent(EXPLORER_APIS, found_chain, api_key)
             fetched == fetch_last_txs_from_explorer(EXPLORER_APIS, found_chain, api_key, http)
         IN  /\ sent \/ http = Http("transport_error", NoneStr, FALSE, <<>>)
             /\ explorer_io' = Some([address |-> from_addr, api_key |-> api_key, sent |-> sent,
                                      http |-> http])
             /\ explorer_txs' = fetched
             /\ calls' = IF sent THEN Append(calls, Call("explorer", found_chain, LIMIT)) ELSE calls
             /\ IF fetched = None
                  THEN /\ context' = [context EXCEPT !.err = ERR_EXPLORER]
                       /\ response' = Render("last10_from_tx.html")
                       /\ UNCHANGED collected
                ELSE IF ~Truthy(fetched[1])
                  THEN /\ context' = [context EXCEPT !.err = ERR_NO_ACTIVITY]
                       /\ response' = Render("last10_from_tx.html")
                       /\ UNCHANGED collected
                ELSE IF \E i \in 1..Len(fetched[1]) : EntryRaises(fetched[1][i])
                  THEN /\ response' = Fault
                       /\ UNCHANGED << context, collected >>
                ELSE LET infos == [i \in 1..Len(fetched[1]) |->
                                      ExplorerTxInfo(fetched[1][i], found_chain)]
                     IN  /\ collected' = infos
                         /\ context' = Assembled(context, CollectedSorted(infos))
                         /\ response' = Render("last10_from_tx.html")
    /\ pc' = "done"
    /\ UNCHANGED << globals, classifier, tx_hash, selected_chain, selection, from_addr,
                    start_block, block_num, scanned, outcomes, seed_fetch >>

\* lines 443-473 when the scan collected something
Last10Finish ==
    /\ pc = "scan"
    /\ ~ScanContinues(block_num, collected, scanned)
    /\ ~FallbackNeeded(collected)
    /\ context' = Assembled(context, CollectedSorted(collected))
    /\ response' = Render("last10_from_tx.html")
    /\ pc' = "done"
    /\ UNCHANGED << globals, rest, tx_hash, selected_chain, selection, scan, calls, outcomes >>

\* ----------------------------------------------------------------- tx_search
\* lines 251-261: context["tx"]
TxDetails(h, tx, status) ==
    [hash |-> h, status |-> IF status = 1 THEN "Success" ELSE "Failed",
     from |-> tx.from, to |-> tx.to, value |-> tx.value, gas |-> tx.gas,
     block |-> tx.blockNumber, input |-> tx.input]

\* the calls one pass of the chain loop of tx_search and download_tx_pdf_plain
\* makes before outcome o ends it
LookupCalls(o, chain_name, bn) ==
    LET c1 == << Call("is_connected", chain_name, 0) >>
        c2 == Append(c1, Call("get_transaction", chain_name, 0))
        c3 == Append(c2, Call("get_transaction_receipt", chain_name, 0))
        c4 == Append(c3, Call("get_block", chain_name, bn))
    IN  CASE o = "no_rpc" -> <<>>
          [] o \in {"refused", "conn_raises"} -> c1
          [] o = "no_tx" -> c2
          [] o = "no_receipt" -> c3
          [] OTHER -> c4

\* mutant of LookupSucceeds: the chain wins once the transaction is fetched
LookupSucceedsOnTx(o) == o \in {"ok", "no_receipt", "no_block"}

\* lines 243-264, 500-520: the pass reaches found = True when none of
\* get_transaction, get_transaction_receipt and get_block raises
LookupSucceeds(o) == o = "ok"

\* lines 212-230: read the parameters, check the hash
TxSearchBegin ==
    /\ pc = "start"
    /\ request.view = "tx_search"
    /\ LET query == Strip(request.q)
           ctx == [query |-> query, tx |-> None, err |-> NoneStr, chain |-> request.chain,
                   chains |-> Keys(RPC_ENDPOINTS)]
       IN  /\ tx_hash' = query
           /\ selected_chain' = request.chain
           /\ IF ~Truthy(query)
                THEN /\ context' = ctx
                     /\ response' = Render("tx_search.html")
                     /\ pc' = "done"
                     /\ UNCHANGED chains_to_search
              ELSE IF ~ValidHash(query)
                THEN /\ context' = [ctx EXCEPT !.err = ERR_INVALID]
                     /\ response' = Render("tx_search.html")
                     /\ pc' = "done"
                     /\ UNCHANGED chains_to_search
              ELSE /\ context' = ctx
                   /\ chains_to_search' = ChainsToSearch(request.chain, RPC_ENDPOINTS)
                   /\ pc' = "select"
                   /\ UNCHANGED response
    /\ UNCHANGED << globals, rest, idx, base_tx, w3, found_chain, scan, calls, outcomes >>

\* lines 233-267: one pass of the chain loop; on success lines 262-264 and 272
TxSearchTryChain ==
    /\ pc = "select"
    /\ request.view = "tx_search"
    /\ idx <= Len(chains_to_search)
    /\ LET chain_name == chains_to_search[idx]
           rpc == RpcOf(RPC_ENDPOINTS, chain_name)
       IN  \E o \in (IF TruthyStr(rpc) THEN NodeOutcomes(world, tx_hash) ELSE {"no_rpc"}),
              status \in {0, 1} :
             /\ o # "ok" => status = 0
             /\ calls' = calls \o LookupCalls(o, chain_name, world.seed.blockNumber)
             /\ outcomes' = Append(outcomes, Pass(chain_name, o))
             /\ IF LookupSucceeds(o)
                  THEN /\ base_tx' = Some(world.seed)
                       /\ w3' = chain_name
                       /\ found_chain' = chain_name
                       /\ context' = [context EXCEPT !.tx = Some(TxDetails(tx_hash, world.seed, status)),
                                                     !.chain = chain_name]
                       /\ response' = Render("tx_search.html")
                       /\ pc' = "done"
                       /\ UNCHANGED idx
                  ELSE /\ idx' = idx + 1
                       /\ UNCHANGED << base_tx, w3, found_chain, context, response, pc >>
    /\ UNCHANGED << globals, rest, tx_hash, selected_chain, chains_to_search, scan >>

\* lines 269-272: the chain loop ended without a chain
TxSearchEnd ==
    /\ pc = "select"
    /\ request.view = "tx_search"
    /\ idx > Len(chains_to_search)
    /\ context' = [context EXCEPT !.err = ERR_SEARCH_NOT_FOUND]
    /\ response' = Render("tx_search.html")
    /\ pc' = "done"
    /\ UNCHANGED << globals, rest, tx_hash, selected_chain, selection, scan, calls, outcomes >>

\* ----------------------------------------------------- download_tx_pdf_plain
HttpResponse(status, body) == [status |-> status, body |-> body]

\* lines 481-488: read the parameters, check the hash
PdfBegin ==
    /\ pc = "start"
    /\ request.view = "download_tx_pdf_plain"
    /\ LET h == Strip(request.q)
       IN  /\ tx_hash' = h
           /\ selected_chain' = request.chain
           /\ IF ~Truthy(h)
                THEN /\ response' = HttpResponse(400, "Missing transaction hash (q parameter).")
                     /\ pc' = "done"
                     /\ UNCHANGED chains_to_search
              ELSE IF ~ValidHash(h)
                THEN /\ response' = HttpResponse(400, "Invalid transaction hash format.")
                     /\ pc' = "done"
                     /\ UNCHANGED chains_to_search
              ELSE /\ chains_to_search' = ChainsToSearch(request.chain, RPC_ENDPOINTS)
                   /\ pc' = "select"
                   /\ UNCHANGED response
    /\ UNCHANGED << globals, rest, idx, base_tx, w3, found_chain, scan, calls, outcomes, context >>

\* lines 491-522: one pass of the chain loop; on success lines 524-562, where
\* REPORTLAB_AVAILABLE says whether the PDF library was importable
PdfTryChain ==
    /\ pc = "select"
    /\ request.view = "download_tx_pdf_plain"
    /\ idx <= Len(chains_to_search)
    /\ LET chain_name == chains_to_search[idx]
           rpc == RpcOf(RPC_ENDPOINTS, chain_name)
       IN  \E o \in (IF TruthyStr(rpc) THEN NodeOutcomes(world, tx_hash) ELSE {"no_rpc"}),
              status \in {0, 1}, REPORTLAB_AVAILABLE \in BOOLEAN :
             /\ o # "ok" => status = 0 /\ REPORTLAB_AVAILABLE
             /\ calls' = calls \o LookupCalls(o, chain_name, world.seed.blockNumber)
             /\ outcomes' = Append(outcomes, Pass(chain_name, o))
             /\ IF LookupSucceeds(o)
                  THEN /\ base_tx' = Some(world.seed)
                       /\ w3' = chain_name
                       /\ found_chain' = chain_name
                       /\ context' = [tx_data |-> [TxDetails(tx_hash, world.seed, status)
                                                     EXCEPT !.hash = tx_hash],
                                      chain |-> chain_name, err |-> NoneStr]
                       /\ response' = IF REPORTLAB_AVAILABLE
                                        THEN HttpResponse(200, "application/pdf")
                                        ELSE HttpResponse(500, "PDF generation dependency missing.")
                       /\ pc' = "done"
                       /\ UNCHANGED idx
                  ELSE /\ idx' = idx + 1
                       /\ UNCHANGED << base_tx, w3, found_chain, context, response, pc >>
    /\ UNCHANGED << globals, rest, tx_hash, selected_chain, chains_to_search, scan >>

\* lines 524-525: the chain loop ended without a chain
PdfEnd ==
    /\ pc = "select"
    /\ request.view = "download_tx_pdf_plain"
    /\ idx > Len(chains_to_search)
    /\ response' = HttpResponse(404, "Transaction not found.")
    /\ pc' = "done"
    /\ UNCHANGED << globals, rest, tx_hash, selected_chain, selection, scan, calls, outcomes, context >>

\* ------------------------------------------------------------ specification
Next ==
    \/ Last10Begin
    \/ Last10TryChain
    \/ Last10Start
    \/ Last10Scan
    \/ Last10Fallback
    \/ Last10Finish
    \/ TxSearchBegin
    \/ TxSearchTryChain
    \/ TxSearchEnd
    \/ PdfBegin
    \/ PdfTryChain
    \/ PdfEnd

Spec == Init /\ [][Next]_vars

\* ------------------------------------------- the classifier on its own
\* the call data the classifier is given: each content as bytes, as a hex
\* string without and with "0x" (in lower case, as bytes.hex() and the nodes
\* write it), absent, and a value that is neither bytes nor text
CallContents ==
    { <<>>, SelErc20, SelErc20 \o <<0, 1>>, SelErc721, SelErc721 \o <<255>>, SelOther,
      <<0>>, <<169, 5, 156>>, <<35>> }
CallData ==
    { Bytes(c) : c \in CallContents } \cup { Str(hex(c)) : c \in CallContents }
    \cup { Str(<<"0", "x">> \o hex(c)) : c \in CallContents } \cup { NoData, OtherData }

ClassifierInputs ==
    { [hash |-> H66, from |-> f, to |-> t, value |-> 0, gas |-> 21000, input |-> i, data |-> d,
       blockNumber |-> 1] :
        f \in {W, NoAddr}, t \in {Other, NoAddr}, i \in CallData,
        d \in {NoData, Bytes(SelErc721), Str(<<"0", "x">>)} }

InitClassify ==
    /\ world = [nodes |-> "healthy", chain |-> "empty", explorer |-> "plain", seed |-> SeedTx(W, 1)]
    /\ RPC_ENDPOINTS = AllConfigured
    /\ EXPLORER_APIS = ExplorerApis
    /\ ARKHAM_KEY \in {NoneStr, "", "key"}
    /\ request = [view |-> "none", q |-> <<>>, chain |-> NoneStr]
    /\ pc = "classify"
    /\ tx_hash = <<>>
    /\ selected_chain = NoneStr
    /\ chains_to_search = <<>>
    /\ idx = 1
    /\ base_tx = None
    /\ w3 = NoneStr
    /\ found_chain = NoneStr
    /\ from_addr = NoAddr
    /\ start_block = NoBlock
    /\ block_num = NoBlock
    /\ scanned = 0
    /\ collected = <<>>
    /\ context = [err |-> NoneStr]
    /\ response = NoResponse
    /\ calls = <<>>
    /\ outcomes = <<>>
    /\ seed_fetch = "unfetched"
    /\ explorer_io = None
    /\ explorer_txs = None
    /\ tx_obj \in ClassifierInputs
    /\ arkham \in [from : {NoneStr, "binance"}, to : {NoneStr, "kraken"}]
    /\ TruthyStr(ARKHAM_KEY) \/ arkham = [from |-> NoneStr, to |-> NoneStr]
    /\ source = NoneStr

\* analyze_tx_source(tx_obj, w3)
Classify ==
    /\ pc = "classify"
    /\ source' = analyze_tx_source(ARKHAM_KEY, tx_obj, arkham.from, arkham.to)
    /\ pc' = "classified"
    /\ UNCHANGED << globals, explorer_io, explorer_txs, tx_obj, arkham, tx_hash, selected_chain,
                    selection, scan, context, response, calls, outcomes, seed_fetch >>

NextClassify == Classify

SpecClassify == InitClassify /\ [][NextClassify]_vars

\* ------------------------------------------------ the scan over a long chain
\* seeds deep enough for the scan to meet its ceiling of safety_limit blocks,
\* or to end at block 0 just before it
DeepWorlds ==
    { [nodes |-> "healthy", chain |-> "void", explorer |-> "plain",
        seed |-> SeedTx(W, safety_limit - 2)],
      [nodes |-> "healthy", chain |-> "consistent", explorer |-> "plain",
        seed |-> SeedTx(W, safety_limit + 1)] }
    \* a short chain whose blocks are freely populated, and a seed without block number
    \cup { [nodes |-> "healthy", chain |-> "free", explorer |-> "plain", seed |-> SeedTx(W, 1)],
           [nodes |-> "healthy", chain |-> "void", explorer |-> "plain", seed |-> SeedTx(W, NoBlock)] }

InitScan ==
    /\ world \in DeepWorlds
    /\ RPC_ENDPOINTS = AllConfigured
    /\ EXPLORER_APIS = ExplorerApis
    /\ ARKHAM_KEY = NoneStr
    /\ request = [view |-> "last10_from_tx", q |-> H66, chain |-> NoneStr]
    /\ pc = "start"
    /\ tx_hash = <<>>
    /\ selected_chain = NoneStr
    /\ chains_to_search = <<>>
    /\ idx = 1
    /\ base_tx = None
    /\ w3 = NoneStr
    /\ found_chain = NoneStr
    /\ from_addr = NoAddr
    /\ start_block = NoBlock
    /\ block_num = NoBlock
    /\ scanned = 0
    /\ collected = <<>>
    /\ context = [err |-> NoneStr]
    /\ response = NoResponse
    /\ calls = <<>>
    /\ outcomes = <<>>
    /\ seed_fetch = "unfetched"
    /\ explorer_io = None
    /\ explorer_txs = None
    /\ tx_obj = SeedTx(W, 1)
    /\ arkham = [from |-> NoneStr, to |-> NoneStr]
    /\ source = NoneStr

\* the steps of last10_from_tx
NextLast10 ==
    \/ Last10Begin
    \/ Last10TryChain
    \/ Last10Start
    \/ Last10Scan
    \/ Last10Fallback
    \/ Last10Finish

\* the view is synchronous: a step that can be taken is taken
SpecScan == InitScan /\ [][NextLast10]_vars /\ WF_vars(NextLast10)

\* ------------------------------------------- the explorer client on its own
\* the chain names the client is asked about: those of the registry and one
\* that has no explorer entry
ExplorerChains == { ChainNames[i] : i \in 1..Len(ChainNames) } \cup { "Gnosis" }

InitExplorer ==
    /\ world = [nodes |-> "healthy", chain |-> "empty", explorer |-> "free", seed |-> SeedTx(W, 1)]
    /\ RPC_ENDPOINTS = AllConfigured
    /\ EXPLORER_APIS = ExplorerApis
    /\ ARKHAM_KEY = NoneStr
    /\ request = [view |-> "none", q |-> <<>>, chain |-> NoneStr]
    /\ pc = "fetch"
    /\ tx_hash = <<>>
    /\ selected_chain = NoneStr
    /\ chains_to_search = <<>>
    /\ idx = 1
    /\ base_tx = None
    /\ w3 = NoneStr
    /\ found_chain \in ExplorerChains
    /\ from_addr \in {W, WLow}
    /\ start_block = NoBlock
    /\ block_num = NoBlock
    /\ scanned = 0
    /\ collected = <<>>
    /\ context = [err |-> NoneStr]
    /\ response = NoResponse
    /\ calls = <<>>
    /\ outcomes = <<>>
    /\ seed_fetch = "unfetched"
    /\ explorer_io = None
    /\ explorer_txs = None
    /\ tx_obj = SeedTx(W, 1)
    /\ arkham = [from |-> NoneStr, to |-> NoneStr]
    /\ source = NoneStr

\* fetch_last_txs_from_explorer(found_chain, from_addr, limit=10)
Fetch ==
    /\ pc = "fetch"
    /\ \E api_key \in ApiKeys, http \in ExplorerReplies(world) :
         LET sent == ExplorerRequestSent(EXPLORER_APIS, found_chain, api_key)
         IN  /\ sent \/ http = Http("transport_error", NoneStr, FALSE, <<>>)
             /\ explorer_io' = Some([address |-> from_addr, api_key |-> api_key, sent |-> sent,
                                      http |-> http])
             /\ explorer_txs' = fetch_last_txs_from_explorer(EXPLORER_APIS, found_chain, api_key, http)
             /\ calls' = IF sent THEN Append(calls, Call("explorer", found_chain, LIMIT)) ELSE calls
    /\ pc' = "fetched"
    /\ UNCHANGED << globals, classifier, tx_hash, selected_chain, selection, scan, context,
                    response, outcomes, seed_fetch >>

NextExplorer == Fetch

SpecExplorer == InitExplorer /\ [][NextExplorer]_vars

\* ===================================================================== claims
IsLast10 == request.view = "last10_from_tx"
Done == pc = "done"
\* the transactions of a response that lists some
HasTxs == IsLast10 /\ Done /\ response.status = 200 /\ context.txs # None
Txs == context.txs[1]
\* the response was produced by the node scan alone
NodeScan == explorer_io = None
BlocksOf(q) == [i \in 1..Len(q) |-> q[i].block]
\* n consecutive block numbers downward from top
Downward(top, n) == [i \in 1..n |-> top - i + 1]
\* the block numbers of the get_block calls, in the order of the calls
RECURSIVE FetchedBlocks(_)
FetchedBlocks(cs) ==
    IF cs = <<>> THEN <<>>
    ELSE IF Head(cs).op = "get_block" THEN <<Head(cs).arg>> \o FetchedBlocks(Tail(cs))
    ELSE FetchedBlocks(Tail(cs))

\* a non-empty hash that lacks the "0x" prefix or is not 66 characters long
MalformedHash(h) == Truthy(h) /\ ~(StartsWith(Chars(h), <<"0", "x">>) /\ Len(Chars(h)) = 66)

\* C1: a last10_from_tx request with a malformed non-empty hash makes no
\* network call and ends with the invalid-hash error.
C1_MalformedHashRejected ==
    (IsLast10 /\ pc # "start" /\ MalformedHash(tx_hash))
        => (calls = <<>> /\ (Done => context.err = ERR_INVALID))

\* C2 as stated: in the scenario (seed at block 1000 sent by W, one
\* transaction touching W in each of the ten blocks below, every block fetch
\* succeeding) the response lists exactly the blocks 999, ..., 990, all from
\* the node scan.
C2_TenBlocksBelowSeed ==
    (IsLast10 /\ Done /\ world.chain \in {"ten", "ten_bare"})
        => /\ HasTxs
           /\ BlocksOf(Txs) = Downward(world.seed.blockNumber - 1, 10)
           /\ NodeScan
           /\ \A i \in 1..Len(Txs) : Txs[i].explorer_url = None

\* C2 amended: the scan starts at the seed's own block.  When block 1000 is
\* returned with the seed, the response lists 1000, 999, ..., 991 and its
\* first entry is the seed; when block 1000 is returned without a transaction
\* touching W, it lists 999, ..., 990.  All ten come from the node scan.
C2_TenBlocksFromSeed ==
    (IsLast10 /\ Done /\ world.chain \in {"ten", "ten_bare"})
        => /\ HasTxs
           /\ NodeScan
           /\ \A i \in 1..Len(Txs) : Txs[i].explorer_url = None
           /\ IF world.chain = "ten"
                THEN /\ BlocksOf(Txs) = Downward(world.seed.blockNumber, 10)
                     /\ Txs[1].hash = world.seed.hash
                ELSE BlocksOf(Txs) = Downward(world.seed.blockNumber - 1, 10)

\* the scenario of C2 has run to its response, the seed's block holding the seed
C2_Witness ==
    IsLast10 /\ Done /\ world.chain = "ten" /\ HasTxs /\ Len(Txs) = 10
    /\ Len(FetchedBlocks(calls)) = 10

\* the sender or the recipient is the wallet, letter case aside
Touches(tx, wallet) == Lower(tx.from) = Lower(wallet) \/ Lower(tx.to) = Lower(wallet)

\* C3: every transaction of a successful response, from the node scan or
\* from the explorer, has the wallet as sender or recipient, letter case
\* aside.
C3_EveryTxTouchesWallet ==
    HasTxs => \A i \in 1..Len(Txs) : Touches(Txs[i], context.wallet)

\* the explorer could not answer: no key, no reply, or the request rejected
\* with status "0" and a message in place of the list
ExplorerUnavailable(io) ==
    \/ ~TruthyStr(io.api_key)
    \/ io.http.kind # "json"
    \/ io.http.status = "0" /\ ~io.http.is_list

\* C4: when the explorer is unavailable or misconfigured after a scan without
\* matches, the response carries the explorer/configuration error, never the
\* no-activity error.
C4_ConfigFailureIsNotNoActivity ==
    (IsLast10 /\ Done /\ explorer_io # None /\ ExplorerUnavailable(explorer_io[1]))
        => (response.status = 200 /\ context.err = ERR_EXPLORER)

\* C5: every last10_from_tx request with a non-empty hash ends in a rendered
\* response that carries either an error or transactions, never in an
\* unhandled exception.
C5_AlwaysWellFormedResponse ==
    (IsLast10 /\ Done /\ Truthy(tx_hash))
        => /\ response = Render("last10_from_tx.html")
           /\ (context.err # NoneStr) # (context.txs # None)

\* the chain hint names, letter case aside, a chain that has an RPC URL
HintNamesConfigured ==
    \E j \in 1..Len(RPC_ENDPOINTS) :
        /\ NameLower(RPC_ENDPOINTS[j].name) = NameLower(request.chain)
        /\ TruthyStr(RPC_ENDPOINTS[j].rpc)
\* every call went to the configured chain the hint names, letter case aside
CallsOnHintedChain ==
    \A i \in 1..Len(calls) : NameLower(calls[i].chain) = NameLower(request.chain)

\* a request whose chain hint names a configured chain in any letter case
\* searches that chain
LookupIgnoresCase ==
    (Done /\ request.view \in Views /\ ValidHash(tx_hash) /\ TruthyStr(request.chain)
          /\ HintNamesConfigured)
        => (calls # <<>> /\ CallsOnHintedChain)

\* C6: the chain lookup ignores the letter case of the chain hint, in the
\* three views alike, and no step of a request changes RPC_ENDPOINTS or
\* EXPLORER_APIS.
C6_CaseInsensitiveLookup ==
    /\ []LookupIgnoresCase
    /\ [][RPC_ENDPOINTS' = RPC_ENDPOINTS /\ EXPLORER_APIS' = EXPLORER_APIS]_vars

\* the seed's block number, when the seed was found with one
SeedBlockKnown == IsLast10 /\ base_tx # None /\ base_tx[1].blockNumber >= 1
SeedBlock == base_tx[1].blockNumber

\* C7: with the seed found at block B, the scan fetches B, B-1, B-2, ... and
\* never a block above B, and every transaction of a node-scan response has a
\* block number of at most B.
C7_ScanAtOrBelowSeedBlock ==
    SeedBlockKnown
        => /\ FetchedBlocks(calls) = Downward(SeedBlock, Len(FetchedBlocks(calls)))
           /\ (HasTxs /\ NodeScan) => \A i \in 1..Len(Txs) : Txs[i].block <= SeedBlock

\* a node-scan response after several block fetches lists a transaction from
\* below the seed's block
C7_Witness ==
    /\ SeedBlockKnown /\ HasTxs /\ NodeScan
    /\ Len(FetchedBlocks(calls)) >= 2
    /\ \E i \in 1..Len(Txs) : Txs[i].block < SeedBlock

\* the entries of q that belong to block b, in the order of q
OfBlock(q, b) == LET InB(x) == x.block = b IN SelectSeq(q, InB)
IsPrefix(p, q) == Len(p) <= Len(q) /\ SubSeq(q, 1, Len(p)) = p
\* the position in its block of a transaction a node returned
PosInBlock(tx) == tx.hash[4].n

\* C8 as stated: whatever produced a successful response, it lists at most 10
\* transactions in descending order of block number, those of one block in
\* the order in which the block holds them.
C8_InBlockOrderInEveryResult ==
    HasTxs
        => /\ Len(Txs) <= 10
           /\ \A i \in 1..(Len(Txs) - 1) : Txs[i].block >= Txs[i + 1].block
           /\ \A i \in 1..Len(Txs) : \A j \in (i + 1)..Len(Txs) :
                (Txs[i].block = Txs[j].block /\ Txs[i].hash # Txs[j].hash /\ Txs[i].hash # world.seed.hash
                                             /\ Txs[j].hash # world.seed.hash)
                    => PosInBlock(Txs[i]) < PosInBlock(Txs[j])

\* C8: a successful response lists at most 10 transactions, in descending
\* order of block number, those of one block in the order in which they were
\* collected: for the node scan the order in which the block holds them, for
\* the explorer fallback the order of the explorer's reply.
C8_AtMostTenDescendingStable ==
    HasTxs
        => /\ Len(Txs) <= 10
           /\ Len(Txs) = (IF Len(collected) < 10 THEN Len(collected) ELSE 10)
           /\ \A i \in 1..(Len(Txs) - 1) : Txs[i].block >= Txs[i + 1].block
           /\ \A i \in 1..Len(Txs) : IsPrefix(OfBlock(Txs, Txs[i].block), OfBlock(collected, Txs[i].block))
           /\ NodeScan =>
                \A i \in 1..Len(Txs) : \A j \in (i + 1)..Len(Txs) :
                    (Txs[i].block = Txs[j].block /\ Txs[i].hash # Txs[j].hash /\ Txs[i].hash # world.seed.hash
                                                 /\ Txs[j].hash # world.seed.hash)
                        => PosInBlock(Txs[i]) < PosInBlock(Txs[j])

\* a response of ten transactions that all come from one block which holds
\* more than ten of the wallet
C8_Witness ==
    /\ HasTxs /\ NodeScan /\ world.chain = "big"
    /\ Len(Txs) = 10
    /\ \A i \in 1..Len(Txs) : Txs[i].block = Txs[1].block

\* the call data of a transaction as hex digits, whatever its representation
CallHex(d) ==
    CASE d.kind = "bytes" -> hex(d.b)
      [] d.kind = "str" /\ StartsWith(d.v, <<"0", "x">>) -> SubSeq(d.v, 3, Len(d.v))
      [] OTHER -> d.v
\* the call data of a transaction is the value the classifier reads on line 137
EffectiveHex(tx) == CallHex(InputData(tx))
\* no entity label is available for the transaction
NoLabel ==
    \/ ~TruthyStr(ARKHAM_KEY)
    \/ /\ ~Truthy(tx_obj.from) \/ arkham.from = NoneStr
       /\ ~Truthy(tx_obj.to) \/ arkham.to = NoneStr
\* the rules of the classifier in their order of priority
RuleResult(callhex, to) ==
    IF callhex = <<>> THEN "Transfer"
    ELSE IF StartsWith(callhex, <<"a", "9", "0", "5", "9", "c", "b", "b">>) THEN "ERC-20 Transfer"
    ELSE IF StartsWith(callhex, <<"2", "3", "b", "8", "7", "2", "d", "d">>) THEN "ERC-721 Transfer"
    ELSE IF to = <<>> THEN "Contract creation"
    ELSE "Contract Interaction"

\* C9: without an entity label the classifier's result follows the rules in
\* their order of priority, and depends on the call data only, not on its
\* representation as bytes or as a hex string with or without "0x".
C9_ClassifierRules ==
    (pc = "classified" /\ NoLabel /\ InputData(tx_obj).kind # "other")
        => source = RuleResult(EffectiveHex(tx_obj), tx_obj.to)

\* a transaction without recipient whose call data, given as a hex string
\* without "0x", starts with the ERC-20 selector, has been classified
C9_Witness ==
    /\ pc = "classified" /\ NoLabel
    /\ tx_obj.to = <<>>
    /\ tx_obj.input.kind = "str" /\ StartsWith(tx_obj.input.v, <<"a", "9", "0", "5">>)
    /\ source = "ERC-20 Transfer"

\* the chains of the is_connected calls, in the order of the calls
RECURSIVE Contacted(_)
Contacted(cs) ==
    IF cs = <<>> THEN <<>>
    ELSE IF Head(cs).op = "is_connected" THEN <<Head(cs).chain>> \o Contacted(Tail(cs))
    ELSE Contacted(Tail(cs))
HasRpc(name) == \E j \in 1..Len(RPC_ENDPOINTS) : RPC_ENDPOINTS[j].name = name /\ TruthyStr(RPC_ENDPOINTS[j].rpc)
\* the chains with an RPC URL among the first k candidates
ConfiguredAmong(k) == SelectSeq(SubSeq(chains_to_search, 1, k), HasRpc)
\* the candidates of a request: the hinted chain alone, or the registry in its order
Candidates == IF TruthyStr(request.chain) THEN <<request.chain>> ELSE Keys(RPC_ENDPOINTS)

Reply == explorer_io[1].http
FallbackAnswered == IsLast10 /\ Done /\ explorer_io # None /\ explorer_io[1].sent /\ Reply.kind = "json"
\* how many entries of q agree with x in hash, sender and recipient
CountLike(q, x) ==
    Cardinality({ i \in 1..Len(q) : q[i].hash = x.hash /\ q[i].from = x.from /\ q[i].to = x.to })

\* C11: after a scan without matches, an empty list from the explorer gives
\* the no-activity error with txs null and tx_count 0; a list of n entries,
\* 1 <= n <= 10, gives a result of exactly those n transactions, each tagged
\* as the explorer's.
C11_FallbackResult ==
    (FallbackAnswered /\ Reply.is_list)
        => /\ Reply.result = <<>> =>
                /\ response = Render("last10_from_tx.html")
                /\ context.err = ERR_NO_ACTIVITY
                /\ context.txs = None /\ context.tx_count = 0
           /\ (Reply.status = "1" /\ Len(Reply.result) \in 1..LIMIT) =>
                /\ HasTxs
                /\ Len(Txs) = Len(Reply.result)
                /\ context.tx_count = Len(Reply.result)
                /\ \A i \in 1..Len(Txs) :
                     /\ Txs[i].source = "Explorer (raw)"
                     /\ Txs[i].explorer_url # None
                     /\ CountLike(Txs, Txs[i]) = CountLike(Reply.result, Txs[i])

\* the positions in the call history of the calls of operation op
CallsOf(op) == { i \in 1..Len(calls) : calls[i].op = op }

\* C12: within one last10_from_tx request no node call is repeated: each
\* chain is connected to at most once and asked for the seed at most once,
\* the head block number is requested at most once, and no block number is
\* fetched twice.
C12_NoCallRepeated ==
    IsLast10
        => /\ \A i, j \in CallsOf("is_connected") : calls[i].chain = calls[j].chain => i = j
           /\ \A i, j \in CallsOf("get_transaction") : calls[i].chain = calls[j].chain => i = j
           /\ Cardinality(CallsOf("block_number")) <= 1
           /\ \A i, j \in CallsOf("get_block") : calls[i].arg = calls[j].arg => i = j

\* the scan loop has been entered and left
ScanStopped == IsLast10 /\ Done /\ start_block # NoBlock
\* what the scan had collected when it stopped
ScanCollected == IF explorer_io = None THEN Len(collected) ELSE 0
\* the get_block calls of the request, in their order
IsGetBlock(c) == c.op = "get_block"
GetBlockCalls == SelectSeq(calls, IsGetBlock)

C13_ScanBounded ==
    IsLast10
        => /\ scanned <= safety_limit
           /\ Done => Len(GetBlockCalls) = scanned
           \* the scan has stopped for one of its three reasons
           /\ ScanStopped =>
                (ScanCollected >= LIMIT \/ scanned = safety_limit \/ block_num < 0)
           \* below the ceiling and short of ten matches it went down to block 0
           /\ (ScanStopped /\ start_block < safety_limit - 1 /\ ScanCollected < LIMIT) =>
                LET fetched == GetBlockCalls
                IN  /\ Len(fetched) = start_block + 1
                    /\ \A i \in 1..Len(fetched) : fetched[i].arg = start_block - i + 1

\* C13: the backward scan always terminates; it goes on only while fewer than
\* 10 matches are collected, fewer than 8000 blocks are examined and the block
\* number is not negative, and stops as soon as one of the three fails; it
\* never fetches more than 8000 blocks; and started at a block B < 7999 with
\* fewer than 10 matches it examines exactly the blocks B down to 0.
C13_ScanTerminates ==
    /\ []C13_ScanBounded
    /\ [][scanned' # scanned =>
            (Len(collected) < LIMIT /\ scanned < safety_limit /\ block_num >= 0)]_vars
    /\ <>Done

\* a scan started at block 1 has stopped below block 0 with some matches, but
\* fewer than 10, after fetching the blocks 1 and 0
C13_Witness ==
    /\ ScanStopped /\ start_block = 1 /\ block_num < 0
    /\ ScanCollected \in 1..(LIMIT - 1)
    /\ Len(GetBlockCalls) = 2

\* the reply to get_block(n) of a world whose replies are determined, a
\* failed fetch replaced by a block without transactions
EmptiedReply(wd, n) ==
    LET reply == CHOOSE r \in BlockReplies(wd, n) : TRUE
    IN  IF reply.ok THEN reply ELSE Block(n, <<>>)
\* what a scan from block top collects down to block low + 1 over the emptied
\* blocks, scanning each block's transactions as the loop does
RECURSIVE EmptiedScan(_, _, _, _)
EmptiedScan(wd, top, low, addr) ==
    IF top <= low THEN <<>>
    ELSE LET above == EmptiedScan(wd, top, low + 1, addr)
             reply == EmptiedReply(wd, low + 1)
         IN  ScanTxs(above, reply.transactions, low + 1, reply.timestamp, addr)

C14_FailedFetchState ==
    (IsLast10 /\ world.chain = "flaky" /\ start_block # NoBlock)
        => /\ scanned = start_block - block_num
           /\ Len(GetBlockCalls) = scanned
           /\ \A i \in 1..Len(GetBlockCalls) : GetBlockCalls[i].arg = start_block - i + 1
           /\ explorer_io = None => collected = EmptiedScan(world, start_block, block_num, from_addr)
           /\ (Done /\ explorer_io = None) =>
                (HasTxs /\ Txs = CollectedSorted(EmptiedScan(world, start_block, block_num, from_addr)))

\* C14: a failed block fetch is treated as an empty block.  Every pass of the
\* scan loop, failed or not, counts one examined block, goes on at the next
\* lower block and keeps what was collected; and over a chain where every
\* second fetch fails the scan collects, and the response lists, what the
\* same scan collects when the failed blocks are empty blocks.
C14_FailedFetchIsEmptyBlock ==
    /\ []C14_FailedFetchState
    /\ [][scanned' # scanned =>
            /\ scanned' = scanned + 1
            /\ block_num' = block_num - 1
            /\ IsPrefix(collected, collected')
            /\ pc' = "scan"]_vars

\* a scan has gone past failed fetches and lists transactions from below them
C14_Witness ==
    /\ IsLast10 /\ world.chain = "flaky" /\ HasTxs /\ NodeScan
    /\ scanned >= 4
    /\ \E i \in 1..Len(Txs) : Txs[i].block <= start_block - 2
    /\ \E i \in 1..Len(Txs) : Txs[i].block = start_block

C15_ExplorerState ==
    IsLast10
        => /\ Cardinality(CallsOf("explorer")) <= 1
           \* no node call follows the explorer request
           /\ \A i \in CallsOf("explorer") : i = Len(calls)
           /\ CallsOf("explorer") # {} => explorer_io # None
           \* a scan that collected something is not followed by a request
           /\ (pc = "scan" /\ collected # <<>>) => explorer_io = None
           /\ (HasTxs /\ NodeScan) =>
                /\ CallsOf("explorer") = {}
                /\ \A i \in 1..Len(Txs) :
                     /\ Txs[i].explorer_url = None /\ Txs[i].source # "Explorer (raw)"
                     /\ \E j \in 1..Len(collected) : collected[j] = Txs[i]

\* C15: in one last10_from_tx request the explorer is asked at most once, as
\* the last call of the request, when the scan has stopped and has collected
\* nothing; a scan that collected a transaction is followed by no explorer
\* request and its result lists node-scan transactions only.
C15_ExplorerOnlyAfterEmptyScan ==
    /\ []C15_ExplorerState
    /\ [][explorer_io' # explorer_io =>
            /\ pc = "scan"
            /\ explorer_io = None
            /\ collected = <<>>
            /\ (scanned = safety_limit \/ block_num < 0)]_vars

\* the explorer was asked once, after the scan had fetched blocks without a
\* match, and its transactions are listed
C15_Witness ==
    /\ HasTxs /\ ~NodeScan
    /\ Cardinality(CallsOf("explorer")) = 1
    /\ Len(GetBlockCalls) >= 2
    /\ calls[Len(calls)].op = "explorer"

\* C16: a seed without from address ends the request with an error before
\* any block is fetched and without the explorer; otherwise the wallet of the
\* scan, of the fallback and of the response is the seed's from address; and
\* no transaction without from address is collected by the scan or listed in
\* a node-scan result.
C16_WalletIsSeedSender ==
    (IsLast10 /\ base_tx # None)
        => /\ ~Truthy(base_tx[1].from) =>
                /\ GetBlockCalls = <<>>
                /\ CallsOf("block_number") = {} /\ CallsOf("explorer") = {}
                /\ explorer_io = None
                /\ Done => (response = Render("last10_from_tx.html")
                            /\ context.err = ERR_NO_SOURCE /\ context.txs = None)
           /\ (Truthy(base_tx[1].from) /\ pc \in {"scan", "done"}) =>
                /\ from_addr = base_tx[1].from
                /\ context.wallet = base_tx[1].from
                /\ explorer_io # None => explorer_io[1].address = base_tx[1].from
           /\ NodeScan => \A i \in 1..Len(collected) : Truthy(collected[i].from)
           /\ (HasTxs /\ NodeScan) => \A i \in 1..Len(Txs) : Truthy(Txs[i].from)

\* a request whose seed has no from address has ended with the error
C16_Witness ==
    /\ IsLast10 /\ Done /\ base_tx # None /\ ~Truthy(base_tx[1].from)
    /\ context.err = ERR_NO_SOURCE
    /\ Len(calls) = 2

\* the registry has an explorer entry for the chain
HasExplorerEntry(chain_name) ==
    \E j \in 1..Len(EXPLORER_APIS) : EXPLORER_APIS[j].name = chain_name
\* the request, the HTTP status or the decoding of the reply failed
ReplyFailed(http) == http.kind # "json"

\* C17: fetch_last_txs_from_explorer returns None when the chain has no
\* explorer entry or the API key is missing, without sending a request, and
\* when the request, the HTTP status or the decoding fails; the reply's list
\* when the reply has status "1" and a list as result; and the empty list for
\* every other reply.
C17_ExplorerOutcomes ==
    pc = "fetched"
        => LET io == explorer_io[1]
               configured == HasExplorerEntry(found_chain) /\ io.api_key \notin {NoneStr, ""}
           IN  /\ ~configured => (explorer_txs = None /\ ~io.sent /\ calls = <<>>)
               /\ configured => (io.sent /\ Len(calls) = 1)
               /\ (configured /\ ReplyFailed(io.http)) => explorer_txs = None
               /\ (configured /\ ~ReplyFailed(io.http)) =>
                    explorer_txs = Some(IF io.http.status = "1" /\ io.http.is_list
                                          THEN io.http.result ELSE <<>>)

\* the explorer rejected a request that was sent with a key, and the client
\* returned the empty list
C17_Witness ==
    /\ pc = "fetched"
    /\ explorer_io[1].sent /\ explorer_io[1].http.kind = "json"
    /\ explorer_io[1].http.status = "0" /\ ~explorer_io[1].http.is_list
    /\ explorer_txs = Some(<<>>)

\* the request is served by tx_search or download_tx_pdf_plain
IsLookup == request.view \in {"tx_search", "download_tx_pdf_plain"}
\* the passes of the chain loop that contacted a node
NodePasses == SelectSeq(outcomes, LAMBDA x : x.o # "no_rpc")
\* the chain loop reported a chain
Found == found_chain # NoneStr

\* C18: in tx_search and download_tx_pdf_plain a chain is reported only when
\* get_transaction, get_transaction_receipt and get_block all answered on it.
\* A pass in which one of them fails leaves nothing behind and the next
\* candidate is tried; the first chain on which all three answer ends the
\* loop, so no later chain is contacted; when no chain answers all three the
\* response is the not-found error (404 for the PDF) without transaction data.
C18_ThreeCallsOrNextChain ==
    (IsLookup /\ pc # "start" /\ ValidHash(tx_hash))
        => /\ Len(outcomes) = (IF Found THEN idx ELSE idx - 1)
           /\ \A i \in 1..Len(outcomes) :
                /\ outcomes[i].chain = chains_to_search[i]
                \* a pass that did not get all three answers is followed by the next candidate
                /\ outcomes[i].o # "ok" => (found_chain # outcomes[i].chain /\ idx > i)
                \* a pass that got them is the last
                /\ outcomes[i].o = "ok" => (i = Len(outcomes) /\ Found /\ found_chain = outcomes[i].chain)
           /\ Found => (outcomes # <<>> /\ outcomes[Len(outcomes)].o = "ok")
           /\ Contacted(calls) = [i \in 1..Len(NodePasses) |-> NodePasses[i].chain]
           /\ Found =>
                /\ Done
                /\ Len(calls) >= 4
                /\ [i \in 1..4 |-> calls[Len(calls) - 4 + i].op] =
                     << "is_connected", "get_transaction", "get_transaction_receipt", "get_block" >>
                /\ \A i \in 1..4 : calls[Len(calls) - 4 + i].chain = found_chain
                /\ context.chain = found_chain
                /\ request.view = "tx_search" =>
                     (context.tx # None /\ context.err = NoneStr /\ response = Render("tx_search.html"))
                /\ request.view = "download_tx_pdf_plain" => response.status \in {200, 500}
           /\ (Done /\ ~Found) =>
                /\ request.view = "tx_search" =>
                     (context.tx = None /\ context.err = ERR_SEARCH_NOT_FOUND
                        /\ response = Render("tx_search.html"))
                /\ request.view = "download_tx_pdf_plain" =>
                     (response.status = 404 /\ context = [err |-> NoneStr])
           /\ ~Done => (~Found /\ response = NoResponse)

\* without a hint, the receipt failed on one chain, the block on another, and
\* a third chain answered all three calls and was reported
C18_Witness ==
    /\ IsLookup /\ Done /\ Found
    /\ \E i, j \in 1..Len(outcomes) :
         /\ outcomes[i].o = "no_receipt"
         /\ outcomes[j].o = "no_block"
    /\ outcomes[Len(outcomes)].o = "ok"
    /\ idx < Len(chains_to_search)

\* the hash of the request as the views read it: (q or "").strip()
GivenHash == Strip(request.q)

\* C19: tx_search and download_tx_pdf_plain answer a non-empty hash that does
\* not start with "0x" or is not 66 characters long with the invalid-format
\* error (status 400 for the PDF) and contact no node, and accept every other
\* non-empty hash; download_tx_pdf_plain answers a missing hash with status
\* 400; tx_search and last10_from_tx answer an empty hash with the form,
\* without error and without network call.
C19_HashChecks ==
    pc # "start"
        => /\ tx_hash = GivenHash
           /\ (IsLookup /\ MalformedHash(GivenHash)) =>
                /\ Done /\ calls = <<>> /\ outcomes = <<>> /\ explorer_io = None
                /\ request.view = "tx_search" =>
                     (response = Render("tx_search.html") /\ context.err = ERR_INVALID
                        /\ context.tx = None)
                /\ request.view = "download_tx_pdf_plain" =>
                     response = HttpResponse(400, "Invalid transaction hash format.")
           /\ (IsLookup /\ GivenHash # <<>> /\ ~MalformedHash(GivenHash)) =>
                /\ chains_to_search = Candidates
                /\ Done => (response.status # 400 /\ context.err # ERR_INVALID)
           /\ (request.view = "download_tx_pdf_plain" /\ GivenHash = <<>>) =>
                /\ Done /\ calls = <<>> /\ outcomes = <<>>
                /\ response = HttpResponse(400, "Missing transaction hash (q parameter).")
           /\ (request.view \in {"tx_search", "last10_from_tx"} /\ GivenHash = <<>>) =>
                /\ Done /\ calls = <<>> /\ outcomes = <<>> /\ explorer_io = None
                /\ context.err = NoneStr
                /\ response = Render(IF IsLast10 THEN "last10_from_tx.html" ELSE "tx_search.html")

\* a hash with the prefix but 12 characters long was refused by the PDF view
\* with status 400 before any call
C19_Witness ==
    /\ request.view = "download_tx_pdf_plain" /\ Done
    /\ request.q = H12
    /\ response.status = 400
    /\ calls = <<>>

\* the seed's block was fetched and holds the seed
SeedBlockHoldsSeed == SeedBlockKnown /\ seed_fetch = "present"
\* the seed is among the collected transactions
SeedCollected == \E i \in 1..Len(collected) : collected[i].hash = world.seed.hash
\* the explorer fallback ran
FallbackInvoked == explorer_io # None
\* the fallback runs only after a seed's block that failed, lacked the seed,
\* or was never known
FallbackOnlyWithoutSeedBlock ==
    (IsLast10 /\ FallbackInvoked)
        => (~SeedBlockKnown \/ seed_fetch \in {"failed", "absent"})

\* C20 as stated: when the seed's block number is known and the fetch of that
\* block returns a block holding the seed, the scan collects the seed itself,
\* and the fallback is not invoked; the fallback runs only when the seed's
\* block fetch failed, returned a block without the seed, or the block number
\* is unknown.
C20_SeedItselfCollected ==
    /\ (IsLast10 /\ SeedBlockHoldsSeed)
           => (NodeScan /\ SeedCollected /\ ~FallbackInvoked)
    /\ FallbackOnlyWithoutSeedBlock

\* C20: when the seed's block number is known and the fetch of that block
\* returns a block holding the seed, the scan collects at least one
\* transaction of that block: the seed itself, unless ten transactions of the
\* wallet precede it there; the fallback is not invoked.  The fallback runs
\* only when the seed's block fetch failed, returned a block without the seed,
\* or the block number is unknown.
C20_SeedBlockFeedsScan ==
    /\ (IsLast10 /\ SeedBlockHoldsSeed)
           => /\ NodeScan /\ ~FallbackInvoked
              /\ collected # <<>>
              /\ collected[1].block = SeedBlock
              /\ \/ SeedCollected
                 \/ /\ Len(collected) = LIMIT
                    /\ \A i \in 1..LIMIT : collected[i].block = SeedBlock
              /\ \A i \in 1..Len(calls) : calls[i].op # "explorer"
              /\ Done => (HasTxs /\ context.err = NoneStr)
    /\ FallbackOnlyWithoutSeedBlock

\* the seed's block held another transaction, the seed and a third one; the
\* request ended with the seed listed and without the explorer
C20_Witness ==
    /\ IsLast10 /\ Done /\ SeedBlockHoldsSeed
    /\ SeedCollected
    /\ Len(collected) >= 2
    /\ ~FallbackInvoked
    /\ HasTxs

\* the view returned its template (no exception left it)
Rendered == IsLast10 /\ Done /\ response = Render("last10_from_tx.html")
\* the chart of a response that lists transactions
Chart == context.chart_json[1]

\* C21: every response last10_from_tx renders for a non-empty hash carries
\* either an error or a transaction list, never both and never neither.  With
\* a list, tx_count is its length, between 1 and 10, and the chart's labels,
\* values, gas and hashes have one entry per listed transaction, in the
\* list's order.  With an error, tx_count is 0, total_value_eth is 0 and there
\* is no chart.
C21_ErrorOrListWithChart ==
    (Rendered /\ Truthy(tx_hash))
        => /\ (context.err # NoneStr) <=> (context.txs = None)
           /\ context.txs # None =>
                /\ context.tx_count = Len(Txs)
                /\ context.tx_count \in 1..LIMIT
                /\ context.chart_json # None
                /\ Len(Chart.labels) = context.tx_count
                /\ Len(Chart.values) = context.tx_count
                /\ Len(Chart.gas) = context.tx_count
                /\ Len(Chart.hashes) = context.tx_count
                /\ \A i \in 1..Len(Txs) :
                     /\ Chart.labels[i].block = Txs[i].block
                     /\ Chart.labels[i].time = Txs[i].timestamp
                     /\ Chart.values[i] = Txs[i].value_eth
                     /\ Chart.gas[i] = Txs[i].gas
                     /\ Chart.hashes[i] = Txs[i].hash
           /\ context.err # NoneStr =>
                /\ context.tx_count = 0
                /\ context.total_value_eth = 0
                /\ context.chart_json = None

\* more than ten transactions were collected and the response lists ten,
\* with ten entries in the chart
C21_Witness ==
    /\ Rendered /\ Truthy(tx_hash)
    /\ Len(collected) > LIMIT
    /\ context.txs # None /\ context.err = NoneStr
    /\ context.tx_count = LIMIT
    /\ Len(context.chart_json[1].hashes) = LIMIT

====
